---- MODULE Spec2Model ----
(***************************************************************************)
(* Mesh integrity validation of the portfolio's two 3D components (Earth   *)
(* and Computers), in the eight revisions kept in the repository:          *)
(*                                                                         *)
(*   E1  src/src/components/canvas/Earth.jsx:1-140      accessor scan      *)
(*   E2  src/src/components/canvas/Earth.jsx:141-280    raw array scan     *)
(*   E3  src/unnamed/part_000                           deep validation    *)
(*   E4  src/unnamed/part_001                           sanitizing         *)
(*   K1  src/src/components/canvas/Computers.jsx:1-131  useMemo, isNaN     *)
(*   K2  src/src/components/canvas/Computers.jsx:132-385 deep validation   *)
(*   K3  src/unnamed/part_002                           sanitizing         *)
(*   K4  src/unnamed/part_003                           render-time isNaN  *)
(*                                                                         *)
(* A scene is the sequence of its nodes in traversal order.  Geometries    *)
(* live in a heap (a sequence of geometry objects): node i owns heap[i],   *)
(* and geometry.clone() allocates a new heap cell.                         *)
(***************************************************************************)
EXTENDS Integers, Sequences, FiniteSets, TLC

(* ------------------------------ bounds -------------------------------- *)
MaxNodes == 2
MaxLoads == 2

(* ------------------------------ scalars ------------------------------- *)
Fin(n) == [kind |-> "finite", v |-> n]
NaN == [kind |-> "NaN", v |-> 0]
PlusInfinity == [kind |-> "Infinity", v |-> 1]
MinusInfinity == [kind |-> "Infinity", v |-> -1]

isFinite(x) == x.kind = "finite"
isNaN(x) == x.kind = "NaN"

(* --------------------------- attribute buffers ------------------------ *)
NoAttr == [present |-> FALSE, array |-> << >>]
Attr(a) == [present |-> TRUE, array |-> a]

NoSphere == [present |-> FALSE, radius |-> Fin(0)]
NoBox == [present |-> FALSE, min |-> << >>, max |-> << >>]

Geometry(p, n, u, f) ==
  [position |-> p, normal |-> n, uv |-> u, fault |-> f,
   boundingSphere |-> NoSphere, boundingBox |-> NoBox, disposed |-> FALSE]

NoGeometry == Geometry(NoAttr, NoAttr, NoAttr, "none")

(* The two-vertex buffers of the spec's scenarios and their corruptions.   *)
PosOk == Attr(<<Fin(0), Fin(0), Fin(0), Fin(1), Fin(1), Fin(1)>>)
PosNaN == Attr(<<Fin(0), Fin(0), Fin(0), NaN, Fin(1), Fin(1)>>)
PosInf == Attr(<<Fin(0), Fin(0), Fin(0), PlusInfinity, Fin(0), Fin(0)>>)
PosPoint == Attr(<<Fin(1), Fin(1), Fin(1)>>)
NormOk == Attr(<<Fin(0), Fin(0), Fin(1), Fin(0), Fin(0), Fin(1)>>)
NormNaN == Attr(<<Fin(0), Fin(0), Fin(1), Fin(0), Fin(0), NaN>>)
UvOk == Attr(<<Fin(0), Fin(0), Fin(1), Fin(1)>>)
UvInf == Attr(<<Fin(0), Fin(0), Fin(1), MinusInfinity>>)

Geometries ==
  { Geometry(PosOk, NoAttr, NoAttr, "none"),
    Geometry(PosOk, NormOk, UvOk, "none"),
    Geometry(PosNaN, NoAttr, NoAttr, "none"),
    Geometry(PosInf, NoAttr, NoAttr, "none"),
    Geometry(PosNaN, NormNaN, UvOk, "none"),
    Geometry(PosOk, NormNaN, NoAttr, "none"),
    Geometry(PosOk, NormOk, UvInf, "none"),
    Geometry(PosPoint, NoAttr, NoAttr, "none"),
    Geometry(NoAttr, NormOk, NoAttr, "none"),
    Geometry(PosOk, NoAttr, NoAttr, "attributes"),
    Geometry(PosOk, NoAttr, NoAttr, "clone"),
    Geometry(PosOk, NormOk, NoAttr, "sphere"),
    Geometry(PosOk, NoAttr, NoAttr, "box") }

(* kind "mesh": isMesh with a geometry; "group": a node that is no mesh;   *)
(* "null": a child on which reading isMesh raises a TypeError.             *)
Nodes ==
  [kind : {"mesh"}, geometry : Geometries]
    \cup [kind : {"group", "null"}, geometry : {NoGeometry}]

SceneContents == UNION { [1..n -> Nodes] : n \in 0..MaxNodes }

(* ----------------------------- buffer scans ---------------------------- *)
(* for (let i = 0; i < array.length; i++) if (!isFinite(array[i])) ...     *)
(* i counts the scalars already passed; TRUE when the loop sets the flag.  *)
RECURSIVE ScanArray(_, _)
ScanArray(array, i) ==
  IF i >= Len(array) THEN FALSE
  ELSE IF ~isFinite(array[i + 1]) THEN TRUE
  ELSE ScanArray(array, i + 1)

(* for (let i = 0; i < attr.count; i++) with getX/getY(/getZ): count is    *)
(* array.length / itemSize and getX(i) reads array[i * itemSize].          *)
RECURSIVE ScanAccessor(_, _, _)
ScanAccessor(array, itemSize, i) ==
  IF i >= Len(array) \div itemSize THEN FALSE
  ELSE IF \E c \in 1..itemSize : ~isFinite(array[i * itemSize + c]) THEN TRUE
  ELSE ScanAccessor(array, itemSize, i + 1)

(* for (...) if (isNaN(positions.array[i])) ...                            *)
RECURSIVE ScanNaN(_, _)
ScanNaN(array, i) ==
  IF i >= Len(array) THEN FALSE
  ELSE IF isNaN(array[i + 1]) THEN TRUE
  ELSE ScanNaN(array, i + 1)

(* ------------------- the geometry library's bounding volumes ---------- *)
(* What testGeometry.computeBoundingBox() leaves in boundingBox: the       *)
(* component-wise minimum and maximum of the position vertices; the empty  *)
(* box (+Infinity, -Infinity) when there is no position attribute.         *)
AllFinite(array) == \A i \in 1..Len(array) : isFinite(array[i])

(* Component c of vertex k (k from 0), and its least and greatest value    *)
(* over the vertices from k on.                                            *)
Coord(array, k, c) == array[3 * k + c].v

RECURSIVE Lowest(_, _, _)
Lowest(array, c, k) ==
  IF k + 1 >= Len(array) \div 3 THEN Coord(array, k, c)
  ELSE LET rest == Lowest(array, c, k + 1)
       IN IF Coord(array, k, c) < rest THEN Coord(array, k, c) ELSE rest

RECURSIVE Highest(_, _, _)
Highest(array, c, k) ==
  IF k + 1 >= Len(array) \div 3 THEN Coord(array, k, c)
  ELSE LET rest == Highest(array, c, k + 1)
       IN IF Coord(array, k, c) > rest THEN Coord(array, k, c) ELSE rest

computeBoundingBox(g) ==
  IF ~g.position.present \/ Len(g.position.array) < 3
  THEN [present |-> TRUE, min |-> <<PlusInfinity, PlusInfinity, PlusInfinity>>,
        max |-> <<MinusInfinity, MinusInfinity, MinusInfinity>>]
  ELSE IF ~AllFinite(g.position.array)
  THEN [present |-> TRUE, min |-> <<NaN, NaN, NaN>>, max |-> <<NaN, NaN, NaN>>]
  ELSE [present |-> TRUE,
        min |-> [c \in 1..3 |-> Fin(Lowest(g.position.array, c, 0))],
        max |-> [c \in 1..3 |-> Fin(Highest(g.position.array, c, 0))]]

(* What testGeometry.computeBoundingSphere() leaves in boundingSphere.     *)
(* The radius is kept as 4 * radius^2 (an integer with the radius' sign    *)
(* and zero): the largest squared distance of a vertex from the box        *)
(* centre.  Without a position attribute the sphere keeps its initial      *)
(* radius of -1.                                                           *)
Offset2(array, k, c) ==
  2 * Coord(array, k, c) - (Lowest(array, c, 0) + Highest(array, c, 0))

DistSq4(array, k) ==
  Offset2(array, k, 1) * Offset2(array, k, 1)
    + Offset2(array, k, 2) * Offset2(array, k, 2)
    + Offset2(array, k, 3) * Offset2(array, k, 3)

RECURSIVE MaxDistSq4(_, _)
MaxDistSq4(array, k) ==
  IF k >= Len(array) \div 3 THEN 0
  ELSE IF DistSq4(array, k) > MaxDistSq4(array, k + 1) THEN DistSq4(array, k)
  ELSE MaxDistSq4(array, k + 1)

computeBoundingSphere(g) ==
  IF ~g.position.present THEN [present |-> TRUE, radius |-> Fin(-1)]
  ELSE IF Len(g.position.array) < 3 THEN [present |-> TRUE, radius |-> Fin(0)]
  ELSE IF ~AllFinite(g.position.array) THEN [present |-> TRUE, radius |-> NaN]
  ELSE [present |-> TRUE, radius |-> Fin(MaxDistSq4(g.position.array, 0))]

(* radius <= 0 as the language compares it: false for NaN.                 *)
LeqZero(x) == (isFinite(x) /\ x.v <= 0) \/ x = MinusInfinity

(* ------------------------- one validation run ------------------------- *)
(* The run's local state.  hasIssue is the scene-level flag (hasIssue,     *)
(* hasCorruptedGeometry, hasNaN, or "setModelError(true) was called");     *)
(* threw: an exception left the traverse callback; scanned, bounded,       *)
(* marked and clones record what the run did; sanitized holds the uuids of *)
(* the nodes of sanitizedScene.                                            *)
InitAcc(heap, sanitized) ==
  [hasIssue |-> FALSE, threw |-> FALSE, heap |-> heap, scanned |-> << >>,
   bounded |-> << >>, marked |-> {}, clones |-> << >>, sanitized |-> sanitized]

Throw(acc) == [acc EXCEPT !.threw = TRUE]

MarkInvalid(acc, i) == [acc EXCEPT !.hasIssue = TRUE, !.marked = @ \cup {i}]

(* One scan loop over one attribute buffer, as each revision writes it.    *)
Found(mode, array, itemSize) ==
  CASE mode = "accessor" -> ScanAccessor(array, itemSize, 0)
    [] mode = "array" -> ScanArray(array, 0)
    [] mode = "deep" -> ScanArray(array, 0) \/ ScanAccessor(array, itemSize, 0)
    [] mode = "isNaN" -> ScanNaN(array, 0)

AttrOf(geometry, name) ==
  CASE name = "position" -> geometry.position
    [] name = "normal" -> geometry.normal
    [] name = "uv" -> geometry.uv

ItemSize(name) == IF name = "uv" THEN 2 ELSE 3

(* if (geometry.attributes.<name>) { scan; on a hit set the flag; break }  *)
ScanAttr(acc, i, name, mode) ==
  IF ~AttrOf(acc.heap[i], name).present THEN acc
  ELSE [acc EXCEPT
          !.scanned = Append(@, <<i, name>>),
          !.hasIssue = @ \/ Found(mode, AttrOf(acc.heap[i], name).array, ItemSize(name)),
          !.marked = IF Found(mode, AttrOf(acc.heap[i], name).array, ItemSize(name))
                     THEN @ \cup {i} ELSE @]

(* if (!hasIssue) { ...the scan above... }                                 *)
ScanAttrIfClear(acc, i, name, mode) ==
  IF acc.hasIssue THEN acc ELSE ScanAttr(acc, i, name, mode)

(* The bounding test run on the mesh's own geometry instead of a copy.     *)
CloneGeometryAliased(heap, id) == [heap |-> heap, id |-> id]

(* const testGeometry = geometry.clone(): a new object with the source's   *)
(* attributes and bounding volumes.                                        *)
CloneGeometry(heap, id) ==
  [heap |-> Append(heap, [heap[id] EXCEPT !.disposed = FALSE]), id |-> Len(heap) + 1]

(* testGeometry.dispose()                                                  *)
Dispose(heap, t) == [heap EXCEPT ![t].disposed = TRUE]

(* A catch that only logs.                                                 *)
BoundsCatchLogsOnly(acc, i) == acc

(* catch (error) { console.warn(...); hasIssue = true; } of the bounding   *)
(* try block.                                                              *)
BoundsCatch(acc, i) == MarkInvalid(acc, i)

(* Earth.jsx:67-69 (and 207-209): radius, min.x and max.x only.            *)
BasicBoundsBad(testGeometry) ==
  \/ ~isFinite(testGeometry.boundingSphere.radius)
  \/ ~isFinite(testGeometry.boundingBox.min[1])
  \/ ~isFinite(testGeometry.boundingBox.max[1])

(* part_000:88-100 and Computers.jsx:265-277.                              *)
StrictBoundsBad(testGeometry) ==
  \/ ~testGeometry.boundingSphere.present
  \/ ~isFinite(testGeometry.boundingSphere.radius)
  \/ LeqZero(testGeometry.boundingSphere.radius)
  \/ /\ testGeometry.boundingBox.present
     /\ \E c \in 1..3 : \/ ~isFinite(testGeometry.boundingBox.min[c])
                        \/ ~isFinite(testGeometry.boundingBox.max[c])

(* The object the bounding test works on: the latest clone.                *)
TestGeometry(acc) == acc.clones[Len(acc.clones)]

(* The check on the computed volumes, then testGeometry.dispose().         *)
CheckAndDispose(acc, i, strict) ==
  [acc EXCEPT
     !.hasIssue = @ \/ (IF strict THEN StrictBoundsBad(acc.heap[TestGeometry(acc)])
                                  ELSE BasicBoundsBad(acc.heap[TestGeometry(acc)])),
     !.marked = IF (IF strict THEN StrictBoundsBad(acc.heap[TestGeometry(acc)])
                              ELSE BasicBoundsBad(acc.heap[TestGeometry(acc)]))
                THEN @ \cup {i} ELSE @,
     !.heap = Dispose(@, TestGeometry(acc))]

(* testGeometry.computeBoundingBox(), which may throw.                     *)
BoxStep(acc, i, strict) ==
  IF acc.heap[TestGeometry(acc)].fault = "box" THEN BoundsCatch(acc, i)
  ELSE CheckAndDispose(
         [acc EXCEPT !.heap[TestGeometry(acc)].boundingBox =
                        computeBoundingBox(acc.heap[TestGeometry(acc)])],
         i, strict)

(* testGeometry.computeBoundingSphere(), which may throw.                  *)
SphereStep(acc, i, strict) ==
  IF acc.heap[TestGeometry(acc)].fault = "sphere" THEN BoundsCatch(acc, i)
  ELSE BoxStep(
         [acc EXCEPT !.heap[TestGeometry(acc)].boundingSphere =
                        computeBoundingSphere(acc.heap[TestGeometry(acc)])],
         i, strict)

(* The bounding-volume try block, entered while the flag is clear: clone   *)
(* (which may throw), the two computations, the check, dispose; any throw  *)
(* goes to the catch.                                                      *)
BoundsTest(acc, i, strict) ==
  IF acc.hasIssue THEN acc
  ELSE IF acc.heap[i].fault = "clone"
  THEN BoundsCatch([acc EXCEPT !.bounded = Append(@, i)], i)
  ELSE SphereStep(
         [acc EXCEPT !.bounded = Append(@, i),
                     !.heap = CloneGeometry(acc.heap, i).heap,
                     !.clones = Append(@, CloneGeometry(acc.heap, i).id)],
         i, strict)

(* E1: Earth.jsx:23-81.  Every present attribute is scanned through the    *)
(* accessors, whatever the flag; the bounding test runs while the          *)
(* scene-level flag is still clear.                                        *)
EarthAccessorCallback(acc, nodes, i) ==
  IF nodes[i].kind = "null" THEN Throw(acc)
  ELSE IF nodes[i].kind # "mesh" THEN acc
  ELSE IF acc.heap[i].fault = "attributes" THEN Throw(acc)
  ELSE BoundsTest(
         ScanAttr(ScanAttr(ScanAttr(acc, i, "position", "accessor"),
                           i, "normal", "accessor"),
                  i, "uv", "accessor"),
         i, FALSE)

(* E2: Earth.jsx:163-221.  As E1 over the raw arrays.                      *)
EarthArrayCallback(acc, nodes, i) ==
  IF nodes[i].kind = "null" THEN Throw(acc)
  ELSE IF nodes[i].kind # "mesh" THEN acc
  ELSE IF acc.heap[i].fault = "attributes" THEN Throw(acc)
  ELSE BoundsTest(
         ScanAttr(ScanAttr(ScanAttr(acc, i, "position", "array"),
                           i, "normal", "array"),
                  i, "uv", "array"),
         i, FALSE)

(* E3 and K2: part_000:23-113 and Computers.jsx:198-291.  Leading return   *)
(* on the flag, guarded attribute scans, strict bounding test, and an      *)
(* inner try/catch around the whole mesh.                                  *)
DeepCallback(acc, nodes, i) ==
  IF acc.hasIssue THEN acc
  ELSE IF nodes[i].kind = "null" THEN Throw(acc)
  ELSE IF nodes[i].kind # "mesh" THEN acc
  ELSE IF acc.heap[i].fault = "attributes" THEN MarkInvalid(acc, i)
  ELSE BoundsTest(
         ScanAttrIfClear(ScanAttrIfClear(ScanAttr(acc, i, "position", "deep"),
                                         i, "normal", "array"),
                         i, "uv", "array"),
         i, TRUE)

(* The corrupted mesh's geometry taken out of the original scene.          *)
RemoveFromSanitizedInPlace(acc, uuid) == [acc EXCEPT !.heap[uuid] = NoGeometry]

(* sanitizedScene.getObjectByProperty('uuid', child.uuid) and              *)
(* parent.remove(sanitizedChild): the node of that uuid leaves the copy.   *)
RemoveFromSanitized(acc, uuid) ==
  [acc EXCEPT !.sanitized = SelectSeq(@, LAMBDA u : u # uuid)]

(* let geometryCorrupted = false is per mesh: the mesh's scans go on while *)
(* this mesh is not marked.                                                *)
ScanAttrIfUnmarked(acc, i, name, mode) ==
  IF i \in acc.marked THEN acc ELSE ScanAttr(acc, i, name, mode)

(* if (geometryCorrupted) { hasCorruptedGeometry = true; remove the copy } *)
RemoveIfCorrupted(acc, i) ==
  IF i \in acc.marked THEN RemoveFromSanitized(acc, i) ELSE acc

(* E4 and K3: part_001:24-85 and part_002:68-129.  No bounding test; the   *)
(* catch marks and removes the mesh as well.                               *)
SanitizingCallback(acc, nodes, i) ==
  IF nodes[i].kind = "null" THEN Throw(acc)
  ELSE IF nodes[i].kind # "mesh" THEN acc
  ELSE IF acc.heap[i].fault = "attributes"
  THEN RemoveFromSanitized(MarkInvalid(acc, i), i)
  ELSE RemoveIfCorrupted(
         ScanAttrIfUnmarked(ScanAttrIfUnmarked(ScanAttr(acc, i, "position", "array"),
                                               i, "normal", "array"),
                            i, "uv", "array"),
         i)

(* K1 and K4: Computers.jsx:36-49 and part_003:16-28.  Only the position   *)
(* array is read, and only isNaN is asked of it.                           *)
NaNCallback(acc, nodes, i) ==
  IF nodes[i].kind = "null" THEN Throw(acc)
  ELSE IF nodes[i].kind # "mesh" THEN acc
  ELSE IF acc.heap[i].fault = "attributes" THEN Throw(acc)
  ELSE ScanAttr(acc, i, "position", "isNaN")

Revisions == {"E1", "E2", "E3", "E4", "K1", "K2", "K3", "K4"}
EffectRevisions == {"E1", "E2", "E3", "E4", "K2", "K3"}

Callback(r, acc, nodes, i) ==
  CASE r = "E1" -> EarthAccessorCallback(acc, nodes, i)
    [] r = "E2" -> EarthArrayCallback(acc, nodes, i)
    [] r \in {"E3", "K2"} -> DeepCallback(acc, nodes, i)
    [] r \in {"E4", "K3"} -> SanitizingCallback(acc, nodes, i)
    [] r \in {"K1", "K4"} -> NaNCallback(acc, nodes, i)

(* scene.traverse(callback): the callback on every node in order; an       *)
(* exception leaving the callback ends the traversal.                      *)
RECURSIVE Traverse(_, _, _, _)
Traverse(r, acc, nodes, i) ==
  IF i > Len(nodes) \/ acc.threw THEN acc
  ELSE Traverse(r, Callback(r, acc, nodes, i), nodes, i + 1)

(* sanitizedScene = scene.clone(): the copies are new objects with new     *)
(* uuids (node i of the original carries uuid i).                          *)
CloneScene(nodes) == [k \in 1..Len(nodes) |-> Len(nodes) + k]

(* The test copies of a run that are still allocated when it ends.         *)
Undisposed(acc) ==
  { t \in { acc.clones[j] : j \in 1..Len(acc.clones) } : ~acc.heap[t].disposed }

(* What one run of the validator leaves behind.  model is the reference    *)
(* handed on as valid (0 is null); outcome "Throws" is an exception        *)
(* leaving the validator.                                                  *)
Result(g, acc, traversed, outcome) ==
  [ref |-> g.ref, present |-> g.hasScene, traversed |-> traversed,
   outcome |-> outcome, model |-> IF outcome = "Valid" THEN g.ref ELSE 0,
   scanned |-> acc.scanned, bounded |-> acc.bounded, marked |-> acc.marked,
   clones |-> acc.clones, undisposed |-> Undisposed(acc),
   sanitized |-> acc.sanitized, threw |-> acc.threw, heap |-> acc.heap]

(* The sanitized copy (reference -ref) handed on when meshes were removed. *)
EffectResultSanitized(g, acc) ==
  [Result(g, acc, TRUE, IF acc.threw \/ acc.hasIssue THEN "Invalid" ELSE "Valid")
     EXCEPT !.model = IF acc.hasIssue /\ ~acc.threw /\ acc.sanitized # << >>
                      THEN 0 - g.ref ELSE @]

(* The ternary with its branches exchanged.                                *)
EffectResultSwapped(g, acc) ==
  Result(g, acc, TRUE, IF acc.threw \/ acc.hasIssue THEN "Valid" ELSE "Invalid")

(* setValidatedModel(hasIssue ? null : scene), and the outer catch's       *)
(* setValidatedModel(null).                                                *)
EffectResult(g, acc) ==
  Result(g, acc, TRUE, IF acc.threw \/ acc.hasIssue THEN "Invalid" ELSE "Valid")

(* The body of the validation effect of E1..E4, K2, K3: the absent-scene   *)
(* branch, then the try block.                                             *)
EffectBody(r, g, heap) ==
  IF ~g.hasScene THEN Result(g, InitAcc(heap, << >>), FALSE, "Invalid")
  ELSE EffectResult(g,
         Traverse(r, InitAcc(heap, IF r \in {"E4", "K3"} THEN CloneScene(g.nodes)
                                   ELSE << >>),
                  g.nodes, 1))

(* return hasNaN ? null : computer; an exception leaves the callback.      *)
MemoResult(g, acc) ==
  Result(g, acc, TRUE,
         IF acc.threw THEN "Throws" ELSE IF acc.hasIssue THEN "Invalid" ELSE "Valid")

(* K1: the useMemo callback, Computers.jsx:29-52; computer is undefined    *)
(* (loaded FALSE) when useGLTF threw.  Nothing catches inside it.          *)
MemoBody(g, computer, heap) ==
  IF ~computer \/ ~g.hasScene THEN Result(g, InitAcc(heap, << >>), FALSE, "Invalid")
  ELSE MemoResult(g, Traverse("K1", InitAcc(heap, << >>), g.nodes, 1))

(* K4: the try block in the render body, part_003:11-33.  A throw of       *)
(* useGLTF or of the traversal reaches the catch, which sets modelError.   *)
RenderBody(g, computer, heap) ==
  IF ~computer THEN Result(g, InitAcc(heap, << >>), FALSE, "Invalid")
  ELSE IF ~g.hasScene THEN Result(g, InitAcc(heap, << >>), FALSE, "Valid")
  ELSE EffectResult(g, Traverse("K4", InitAcc(heap, << >>), g.nodes, 1))

(* ------------------------------ the component ------------------------- *)
VARIABLES
  rev,             \* the revision under study
  loader,          \* useGLTF's asset: "pending", "failed" or "resolved"
  gltf,            \* the loaded object: [ref, hasScene, nodes]
  heap,            \* the geometry objects
  loads,           \* scene references delivered so far
  validatedModel,  \* useState / useMemo value: 0 is null, else the reference
  isValidating,    \* useState(true)
  modelError,      \* useState(false) of K4
  deps,            \* the dependency the effect or memo last saw (-1: none)
  rendered,        \* what the last render returned: [kind, object]
  dirty,           \* a render is scheduled
  effectPending,   \* the validation effect is scheduled
  runs,            \* the last two validation runs, older first
  loaded,          \* the heap as the loader delivered it
  contact_submissions,  \* the table's rows, in insertion order
  reply            \* what the database answered to the last statement

component == <<rev, loader, gltf, heap, loads, validatedModel, isValidating,
               modelError, deps, rendered, dirty, effectPending, runs, loaded>>

vars == <<component, contact_submissions, reply>>

NoGltf == [ref |-> 0, hasScene |-> FALSE, nodes |-> << >>]

(* No statement has been sent to the database yet.                         *)
NoReply == [role |-> "none", command |-> "none", status |-> "none",
            rows |-> {}, affected |-> 0]

Out(kind, object) == [kind |-> kind, object |-> object]

Init ==
  /\ rev \in Revisions
  /\ loader = "pending"
  /\ gltf = NoGltf
  /\ heap = << >>
  /\ loaded = << >>
  /\ loads = 0
  /\ validatedModel = 0
  /\ isValidating = TRUE
  /\ modelError = FALSE
  /\ deps = -1
  /\ rendered = Out("none", 0)
  /\ dirty = TRUE
  /\ effectPending = FALSE
  /\ runs = << >>
  /\ contact_submissions = << >>
  /\ reply = NoReply

(* The loader delivers an object: with a scene of the given nodes, or      *)
(* without the scene field.  A suspended component is rendered again.      *)
Deliver(hasScene, content) ==
  /\ gltf' = [ref |-> loads + 1, hasScene |-> hasScene,
              nodes |-> [k \in 1..Len(content) |-> [kind |-> content[k].kind, uuid |-> k]]]
  /\ heap' = [k \in 1..Len(content) |-> content[k].geometry]
  /\ loaded' = heap'
  /\ loads' = loads + 1
  /\ loader' = "resolved"

Resolve ==
  /\ loader = "pending"
  /\ \/ \E content \in SceneContents : Deliver(TRUE, content)
     \/ Deliver(FALSE, << >>)
  /\ dirty' = (dirty \/ rendered.kind = "suspended")
  /\ UNCHANGED <<contact_submissions, reply, rev, validatedModel, isValidating, modelError, deps,
                 rendered, effectPending, runs>>

Fail ==
  /\ loader = "pending"
  /\ loader' = "failed"
  /\ dirty' = (dirty \/ rendered.kind = "suspended")
  /\ UNCHANGED <<contact_submissions, reply, rev, gltf, heap, loaded, loads, validatedModel, isValidating,
                 modelError, deps, rendered, effectPending, runs>>

(* The run as kept in the history: everything but the heap, which is the  *)
(* state variable.                                                         *)
Record(res) == [f \in (DOMAIN res) \ {"heap"} |-> res[f]]

(* The history keeps the last two runs.                                    *)
Latest(history) ==
  IF Len(history) <= 2 THEN history
  ELSE SubSeq(history, Len(history) - 1, Len(history))

(* The effect's (or memo's) dependency array: [earth.scene] in E1..E3,     *)
(* the loaded object in E4, K1, K2, K3.  0 stands for undefined.           *)
DepOf(r, g) ==
  IF r \in {"E1", "E2", "E3"} THEN (IF g.hasScene THEN g.ref ELSE 0) ELSE g.ref

(* The return of the effect revisions' render: the loader while            *)
(* validating, the placeholder without a model, else the model's scene.    *)
EffectRevOutput(validating, model) ==
  IF validating THEN Out("loader", 0)
  ELSE IF model = 0 THEN Out("fallback", 0)
  ELSE Out("primitive", model)

(* A render that starts the validation over each time it runs.             *)
RenderEffectRevRestarting ==
  /\ rev \in EffectRevisions
  /\ dirty
  /\ dirty' = FALSE
  /\ rendered' = Out("loader", 0)
  /\ isValidating' = TRUE
  /\ deps' = DepOf(rev, gltf)
  /\ effectPending' = TRUE
  /\ UNCHANGED <<contact_submissions, reply, rev, loader, gltf, heap, loaded, loads, validatedModel,
                 modelError, runs>>

(* Render of E1..E4, K2, K3.  useGLTF suspends while the asset is pending  *)
(* and throws when it failed (K2 and K3 sit inside ThreeErrorBoundary).    *)
(* After the commit the effect is scheduled when its dependency changed.   *)
RenderEffectRev ==
  /\ rev \in EffectRevisions
  /\ dirty
  /\ dirty' = FALSE
  /\ IF loader = "pending"
     THEN /\ rendered' = Out("suspended", 0)
          /\ UNCHANGED <<deps, effectPending>>
     ELSE IF loader = "failed"
     THEN /\ rendered' = Out(IF rev \in {"K2", "K3"} THEN "boundary" ELSE "crashed", 0)
          /\ UNCHANGED <<deps, effectPending>>
     ELSE /\ rendered' = EffectRevOutput(isValidating, validatedModel)
          /\ deps' = DepOf(rev, gltf)
          /\ effectPending' = (effectPending \/ deps # DepOf(rev, gltf))
  /\ UNCHANGED <<contact_submissions, reply, rev, loader, gltf, heap, loaded, loads, validatedModel,
                 isValidating, modelError, runs>>

(* An effect whose outer catch returns before setIsValidating(false).      *)
RunEffectLeavesLoading ==
  /\ rev \in EffectRevisions
  /\ effectPending
  /\ LET res == EffectBody(rev, gltf, heap)
     IN /\ validatedModel' = res.model
        /\ isValidating' = (isValidating /\ res.threw)
        /\ heap' = res.heap
        /\ runs' = Latest(Append(runs, Record(res)))
        /\ dirty' = (dirty \/ isValidating \/ validatedModel # res.model)
  /\ effectPending' = FALSE
  /\ UNCHANGED <<contact_submissions, reply, rev, loader, gltf, loaded, loads,
                 modelError, deps, rendered>>

(* The validation effect of E1..E4, K2, K3, with its two state updates.    *)
RunEffect ==
  /\ rev \in EffectRevisions
  /\ effectPending
  /\ LET res == EffectBody(rev, gltf, heap)
     IN /\ validatedModel' = res.model
        /\ isValidating' = FALSE
        /\ heap' = res.heap
        /\ runs' = Latest(Append(runs, Record(res)))
        /\ dirty' = (dirty \/ isValidating \/ validatedModel # res.model)
  /\ effectPending' = FALSE
  /\ UNCHANGED <<contact_submissions, reply, rev, loader, gltf, loaded, loads, modelError, deps, rendered>>

(* Render of K1: useGLTF inside try/catch, the memoized validation, the    *)
(* two returns.  An exception out of the memo callback unmounts the tree   *)
(* (no error boundary in this revision).                                   *)
RenderMemo ==
  /\ rev = "K1"
  /\ dirty
  /\ dirty' = FALSE
  /\ LET computer == loader = "resolved"
         dep == IF computer THEN gltf.ref ELSE 0
         res == MemoBody(gltf, computer, heap)
     IN IF deps # dep
        THEN /\ runs' = Latest(Append(runs, Record(res)))
             /\ deps' = dep
             /\ heap' = res.heap
             /\ IF res.outcome = "Throws"
                THEN /\ rendered' = Out("crashed", 0)
                     /\ UNCHANGED validatedModel
                ELSE /\ validatedModel' = res.model
                     /\ rendered' = IF res.model = 0 THEN Out("fallback", 0)
                                    ELSE Out("primitive", res.model)
        ELSE /\ rendered' = IF validatedModel = 0 THEN Out("fallback", 0)
                            ELSE Out("primitive", validatedModel)
             /\ UNCHANGED <<runs, deps, heap, validatedModel>>
  /\ UNCHANGED <<contact_submissions, reply, rev, loader, gltf, loaded, loads, isValidating, modelError,
                 effectPending>>

(* Render of K4: validation in the render body (part_003:7-66).  A state   *)
(* update made while rendering makes the renderer call the component again *)
(* before committing; every such call repeats the validation and, its      *)
(* input being the same, repeats setModelError(true), so the renderer      *)
(* gives up on its re-render limit and the render throws ("Too many        *)
(* re-renders"); the canvas has no error boundary in this revision.        *)
RenderInline ==
  /\ rev = "K4"
  /\ dirty
  /\ dirty' = FALSE
  /\ LET computer == loader = "resolved"
         res == RenderBody(gltf, computer, heap)
         flagged == res.outcome = "Invalid"
     IN /\ modelError' = (modelError \/ flagged)
        /\ runs' = IF flagged
                   THEN <<Record(res), Record(res)>>
                   ELSE Latest(Append(runs, Record(res)))
        /\ heap' = res.heap
        /\ rendered' = IF flagged THEN Out("crashed", 0)
                       ELSE IF modelError THEN Out("fallback", 0)
                       ELSE IF computer
                            THEN Out("primitive", IF gltf.hasScene THEN gltf.ref ELSE 0)
                            ELSE Out("empty", 0)
  /\ UNCHANGED <<contact_submissions, reply, rev, loader, gltf, loaded, loads, validatedModel, isValidating,
                 deps, effectPending>>

(* The scenes a later load may deliver.                                    *)
ReloadContents ==
  { s \in SceneContents :
      /\ Len(s) = 1
      /\ s[1] \in { [kind |-> "mesh", geometry |-> Geometry(PosOk, NoAttr, NoAttr, "none")],
                    [kind |-> "mesh", geometry |-> Geometry(PosNaN, NoAttr, NoAttr, "none")] } }

(* A run on a scene that is gone keeps its reference and outcome only.     *)
Verdict(run) ==
  [run EXCEPT !.scanned = << >>, !.bounded = << >>, !.marked = {},
              !.clones = << >>, !.sanitized = << >>]

(* A new asset load, between two renders: useGLTF returns a new object on  *)
(* the next render.                                                        *)
Reload ==
  /\ loader = "resolved"
  /\ loads < MaxLoads
  /\ ~dirty /\ ~effectPending
  /\ rendered.kind \notin {"none", "crashed"}
  /\ \/ \E content \in ReloadContents : Deliver(TRUE, content)
     \/ Deliver(FALSE, << >>)
  /\ dirty' = TRUE
  /\ runs' = [k \in 1..Len(runs) |-> Verdict(runs[k])]
  /\ UNCHANGED <<contact_submissions, reply, rev, validatedModel, isValidating, modelError, deps,
                 rendered, effectPending>>

(* The canvas is taken down and put up again (ComputersCanvas renders it   *)
(* only while !isMobile): the component mounts anew with initial state;    *)
(* the loader keeps its asset, and the test copies of earlier runs, which  *)
(* nothing refers to, are gone.  A render that threw past every boundary   *)
(* has taken the whole tree down, ComputersCanvas included.                *)
Remount ==
  /\ ~dirty /\ ~effectPending
  /\ rendered.kind \notin {"none", "crashed"}
  /\ validatedModel' = 0
  /\ isValidating' = TRUE
  /\ modelError' = FALSE
  /\ deps' = -1
  /\ rendered' = Out("none", 0)
  /\ dirty' = TRUE
  /\ effectPending' = FALSE
  /\ heap' = SubSeq(heap, 1, Len(loaded))
  /\ UNCHANGED <<contact_submissions, reply, rev, loader, gltf, loaded, loads, runs>>

(* The component is rendered again with the same asset: an ancestor        *)
(* re-rendered, or a sibling under the same Suspense boundary resumed.     *)
(* Nothing is rendered under a boundary that caught an error, and a        *)
(* suspended component is retried only when its asset settles.             *)
Rerender ==
  /\ ~dirty /\ ~effectPending
  /\ rendered.kind \notin {"none", "crashed", "boundary", "suspended"}
  /\ dirty' = TRUE
  /\ UNCHANGED <<contact_submissions, reply, rev, loader, gltf, heap, loaded, loads, validatedModel,
                 isValidating, modelError, deps, rendered, effectPending, runs>>

Next ==
  \/ Resolve
  \/ Fail
  \/ RenderEffectRev
  \/ RunEffect
  \/ RenderMemo
  \/ RenderInline
  \/ Reload
  \/ Remount
  \/ Rerender

Spec == Init /\ [][Next]_vars

(* The renderer's scheduler runs every render and every effect it has      *)
(* scheduled; loads, remounts and renders caused from outside may or may   *)
(* not come.  A render is enabled exactly when dirty holds and clears it,  *)
(* the effect is enabled exactly when effectPending holds and clears it,   *)
(* so weak fairness of the render and effect actions is weak fairness of   *)
(* the two steps below.                                                    *)
RenderScheduled == dirty /\ dirty' = FALSE

EffectScheduled == effectPending /\ effectPending' = FALSE

FairSpec ==
  /\ Spec
  /\ WF_dirty(RenderScheduled)
  /\ WF_effectPending(EffectScheduled)

TypeOK ==
  /\ rev \in Revisions
  /\ loader \in {"pending", "failed", "resolved"}
  /\ validatedModel \in 0..MaxLoads + 1
  /\ isValidating \in BOOLEAN
  /\ modelError \in BOOLEAN

(* ------------------------ contact_submissions ------------------------- *)
MaxRows == 2

Null == "NULL"

Roles == {"anon", "authenticated"}

(* CREATE POLICY ... FOR <command> TO <role>; USING (true) and             *)
(* WITH CHECK (true) admit every row.                                      *)
Policies ==
  { [name |-> "Anyone can submit contact forms",
     command |-> "INSERT", role |-> "anon", admits |-> TRUE],
    [name |-> "Authenticated users can read submissions",
     command |-> "SELECT", role |-> "authenticated", admits |-> TRUE] }

(* A policy that names no role applies to every role.                      *)
PermittedAnyRole(role, command) ==
  \E p \in Policies : p.command = command /\ p.admits

(* ENABLE ROW LEVEL SECURITY: a statement of a role reaches a row only     *)
(* through a policy made for that command and that role.                   *)
Permitted(role, command) ==
  \E p \in Policies : p.command = command /\ p.role = role /\ p.admits

(* The values a caller may send for the columns without a default.         *)
Submissions ==
  [name : {Null, "Ada"}, email : {Null, "ada@example.org"},
   message : {Null, "hello", "hi"}, ip_address : {Null, "203.0.113.7"},
   user_agent : {Null}]

(* name, email and message are NOT NULL.                                   *)
NotNullOk(v) == v.name # Null /\ v.email # Null /\ v.message # Null

(* id and created_at take their defaults: a fresh identifier and the time  *)
(* of insertion, both kept as the row's number.                            *)
NextId ==
  IF contact_submissions = << >> THEN 1
  ELSE contact_submissions[Len(contact_submissions)].id + 1

NewRow(v) ==
  [id |-> NextId, name |-> v.name, email |-> v.email, message |-> v.message,
   ip_address |-> v.ip_address, user_agent |-> v.user_agent,
   created_at |-> NextId]

Range(seq) == { seq[i] : i \in 1..Len(seq) }

Reply(role, command, status, rows, affected) ==
  [role |-> role, command |-> command, status |-> status, rows |-> rows,
   affected |-> affected]

(* INSERT INTO contact_submissions ... : refused without a policy for the  *)
(* role, an error when a required column is missing.                       *)
Insert ==
  /\ Len(contact_submissions) < MaxRows
  /\ \E role \in Roles, v \in Submissions :
       IF ~Permitted(role, "INSERT")
       THEN /\ reply' = Reply(role, "INSERT", "denied", {}, 0)
            /\ UNCHANGED contact_submissions
       ELSE IF ~NotNullOk(v)
       THEN /\ reply' = Reply(role, "INSERT", "error", {}, 0)
            /\ UNCHANGED contact_submissions
       ELSE /\ contact_submissions' = Append(contact_submissions, NewRow(v))
            /\ reply' = Reply(role, "INSERT", "ok", {}, 1)
  /\ UNCHANGED component

(* SELECT * FROM contact_submissions: the rows a policy lets the role see. *)
Select ==
  /\ \E role \in Roles :
       reply' = Reply(role, "SELECT", "ok",
                      IF Permitted(role, "SELECT")
                      THEN Range(contact_submissions) ELSE {},
                      0)
  /\ UNCHANGED <<component, contact_submissions>>

(* UPDATE contact_submissions SET message = m WHERE id = i.                *)
Update ==
  /\ \E role \in Roles, i \in 1..MaxRows, m \in {"hello", "hi"} :
       IF Permitted(role, "UPDATE")
            /\ \E k \in 1..Len(contact_submissions) : contact_submissions[k].id = i
       THEN /\ contact_submissions' =
                 [k \in 1..Len(contact_submissions) |->
                    IF contact_submissions[k].id = i
                    THEN [contact_submissions[k] EXCEPT !.message = m]
                    ELSE contact_submissions[k]]
            /\ reply' = Reply(role, "UPDATE", "ok", {}, 1)
       ELSE /\ reply' = Reply(role, "UPDATE", "ok", {}, 0)
            /\ UNCHANGED contact_submissions
  /\ UNCHANGED component

(* DELETE FROM contact_submissions WHERE id = i.                           *)
Delete ==
  /\ \E role \in Roles, i \in 1..MaxRows :
       IF Permitted(role, "DELETE")
            /\ \E k \in 1..Len(contact_submissions) : contact_submissions[k].id = i
       THEN /\ contact_submissions' =
                 SelectSeq(contact_submissions, LAMBDA r : r.id # i)
            /\ reply' = Reply(role, "DELETE", "ok", {}, 1)
       ELSE /\ reply' = Reply(role, "DELETE", "ok", {}, 0)
            /\ UNCHANGED contact_submissions
  /\ UNCHANGED component

(* The table on its own: the statements of the two roles, with the         *)
(* components left at rest.                                                *)
DbInit == Init /\ rev = "E1"

DbNext ==
  \/ Insert
  \/ Select
  \/ Update
  \/ Delete

DbSpec == DbInit /\ [][DbNext]_vars

(* ------------------------------ properties ---------------------------- *)
(* No render and no effect is outstanding.                                 *)
Quiescent == ~dirty /\ ~effectPending

LastRun == runs[Len(runs)]

(* The runs in the history that validated the scene now loaded.            *)
CurrentRuns == { k \in 1..Len(runs) : runs[k].present /\ runs[k].ref = gltf.ref }

MeshNodes == { i \in 1..Len(gltf.nodes) : gltf.nodes[i].kind = "mesh" }

NonFinite(attr) == attr.present /\ ~AllFinite(attr.array)

HasNonFiniteScalar(g) ==
  NonFinite(g.position) \/ NonFinite(g.normal) \/ NonFinite(g.uv)

HasNaNNormal(g) ==
  g.normal.present /\ \E j \in 1..Len(g.normal.array) : isNaN(g.normal.array[j])

(* Finite buffers and a finite, strictly positive bounding-sphere radius.  *)
SoundGeometry(g) ==
  /\ g.fault = "none"
  /\ ~HasNonFiniteScalar(g)
  /\ isFinite(computeBoundingSphere(g).radius)
  /\ computeBoundingSphere(g).radius.v > 0

(* Nothing in the loaded scene raises when it is read.                     *)
RaisesNothing ==
  \A i \in 1..Len(gltf.nodes) :
    gltf.nodes[i].kind # "null" /\ loaded[i].fault = "none"

CleanScene ==
  /\ gltf.hasScene
  /\ RaisesNothing
  /\ \A i \in MeshNodes : SoundGeometry(loaded[i])

BoundingFaults == {"clone", "sphere", "box"}

(* C1: in every revision, a scene in which some mesh holds a NaN or an     *)
(* infinite scalar in a present position, normal or uv buffer is           *)
(* validated Invalid.                                                      *)
C1_NonFiniteScalarIsInvalid ==
  \A k \in CurrentRuns :
    (\E i \in MeshNodes : HasNonFiniteScalar(loaded[i]))
      => runs[k].outcome = "Invalid"

(* C2: a present scene that raises nothing and whose meshes hold only      *)
(* finite scalars and have a finite, strictly positive bounding-sphere     *)
(* radius is validated Valid, the model handed on is the original          *)
(* reference, and the original geometries are as loaded.                   *)
C2_CleanSceneIsValid ==
  CleanScene =>
    \A k \in CurrentRuns :
      /\ runs[k].outcome = "Valid"
      /\ runs[k].model = gltf.ref
      /\ SubSeq(heap, 1, Len(loaded)) = loaded

(* K2 has validated a clean scene of two meshes, bounding tests included.  *)
C2_Witness ==
  /\ rev = "K2"
  /\ CleanScene
  /\ \E k \in CurrentRuns :
       /\ runs[k].outcome = "Valid"
       /\ Len(runs[k].bounded) = 2
       /\ validatedModel = gltf.ref

(* C3: when the loader yields no scene, validation ends Invalid without    *)
(* traversing, and the component, once settled, shows the fallback.        *)
C3_AbsentSceneFallsBack ==
  (loader = "resolved" /\ ~gltf.hasScene /\ Quiescent /\ rendered.kind # "none")
    => /\ rendered = Out("fallback", 0)
       /\ runs # << >>
       /\ LastRun.outcome = "Invalid"
       /\ ~LastRun.traversed

(* C4: a throw of geometry.clone(), computeBoundingSphere() or             *)
(* computeBoundingBox() is caught in the validation: the mesh is marked,   *)
(* the run ends Invalid, and the traversal is not aborted by it.           *)
C4_BoundingFaultIsCaught ==
  \A k \in CurrentRuns : \A j \in 1..Len(runs[k].bounded) :
    loaded[runs[k].bounded[j]].fault \in BoundingFaults
      => /\ runs[k].bounded[j] \in runs[k].marked
         /\ runs[k].outcome = "Invalid"
         /\ (\A i \in 1..Len(gltf.nodes) :
               gltf.nodes[i].kind # "null" /\ loaded[i].fault # "attributes")
              => ~runs[k].threw

(* E1 met a throwing computeBoundingSphere() on the first of two meshes    *)
(* and went on to scan the second.                                         *)
C4_Witness ==
  /\ rev = "E1"
  /\ \E k \in CurrentRuns :
       /\ Len(runs[k].bounded) >= 1
       /\ runs[k].bounded[1] = 1
       /\ loaded[1].fault = "sphere"
       /\ runs[k].outcome = "Invalid"
       /\ ~runs[k].threw
       /\ \E n \in 1..Len(runs[k].scanned) : runs[k].scanned[n][1] = 2

(* C5: in every revision, a run on a present scene ends Valid or Invalid;  *)
(* no exception leaves the validator.                                      *)
C5_NoFaultEscapes ==
  \A k \in 1..Len(runs) :
    runs[k].present => runs[k].outcome \in {"Valid", "Invalid"}

(* C6: when a run has ended, every test copy it made is disposed.          *)
C6_TestCopiesDisposed ==
  \A k \in 1..Len(runs) : runs[k].undisposed = {}

(* C7: the geometries of the original scene are never changed: bounding    *)
(* volumes, disposal and removal touch copies only.                        *)
C7_OriginalUnchanged ==
  /\ Len(heap) >= Len(loaded)
  /\ SubSeq(heap, 1, Len(loaded)) = loaded

(* A run has computed a bounding sphere on a test copy and disposed it.    *)
C7_Witness ==
  \E k \in CurrentRuns :
    /\ Len(runs[k].clones) > 0
    /\ runs[k].clones[1] \in DOMAIN heap
    /\ heap[runs[k].clones[1]].boundingSphere.present
    /\ heap[runs[k].clones[1]].disposed

(* C8: two runs on the same scene end the same way.                        *)
C8_SameSceneSameResult ==
  \A j, k \in 1..Len(runs) :
    (runs[j].ref = runs[k].ref /\ runs[j].present = runs[k].present)
      => /\ runs[j].outcome = runs[k].outcome
         /\ runs[j].model = runs[k].model
         /\ runs[j].marked = runs[k].marked

(* After a remount K2 has validated the same corrupted scene a second      *)
(* time.                                                                   *)
C8_Witness ==
  /\ rev = "K2"
  /\ Len(runs) = 2
  /\ runs[1].ref = gltf.ref
  /\ runs[2].ref = gltf.ref
  /\ runs[1].present
  /\ runs[1].marked # {}
  /\ runs[2].outcome = "Invalid"

(* C9: a run ends Valid only if it marked no mesh, and a scene of one      *)
(* sound mesh and one mesh with a NaN normal is Invalid in either order.   *)
C9_VerdictIsOrderIndependent ==
  \A k \in CurrentRuns :
    /\ runs[k].outcome = "Valid" => runs[k].marked = {}
    /\ (/\ MeshNodes = {1, 2}
        /\ \E a, b \in 1..2 :
             /\ a # b
             /\ SoundGeometry(loaded[a])
             /\ loaded[b].fault = "none"
             /\ HasNaNNormal(loaded[b]))
         => runs[k].outcome = "Invalid"

(* C10: the original scene reaches the renderer only if a run on that very *)
(* scene ended Valid, and once the component has settled after an Invalid  *)
(* run on the current scene the renderer holds the placeholder.            *)
C10_InvalidSceneShowsPlaceholder ==
  /\ (rendered.kind = "primitive" /\ rendered.object # 0)
       => \E k \in 1..Len(runs) :
            runs[k].ref = rendered.object /\ runs[k].outcome = "Valid"
  /\ (Quiescent /\ rendered.kind # "none"
        /\ \E k \in CurrentRuns : runs[k].outcome = "Invalid")
       => rendered = Out("fallback", 0)

(* The state of the component's machine.  The effect revisions keep it in  *)
(* isValidating and validatedModel; K1 in the memoized value; K4 in        *)
(* modelError.                                                             *)
Phase ==
  CASE rev \in EffectRevisions ->
         IF isValidating THEN "Loading"
         ELSE IF validatedModel = 0 THEN "Invalid" ELSE "Valid"
    [] rev = "K1" ->
         IF deps = -1 THEN "Loading"
         ELSE IF validatedModel = 0 THEN "Invalid" ELSE "Valid"
    [] rev = "K4" ->
         IF modelError THEN "Invalid"
         ELSE IF rendered.kind = "none" THEN "Loading" ELSE "Valid"

(* C11: a mounted component that has reached Valid or Invalid leaves that  *)
(* state (for Loading or for the other outcome) only when the asset now    *)
(* loaded is not the one its last validation ran on.                       *)
C11_TerminalUntilNewLoad ==
  [][ (Phase # "Loading" /\ Phase' # Phase /\ rendered'.kind # "none")
        => (runs # << >> /\ gltf'.ref # LastRun.ref) ]_vars

(* E1 has validated its scene Valid, rendered it, and rests.               *)
C11_Witness ==
  /\ rev = "E1"
  /\ Phase = "Valid"
  /\ Quiescent
  /\ rendered = Out("primitive", gltf.ref)
  /\ LastRun.ref = gltf.ref

(* C12: once a new scene reference has been delivered and rendered, and    *)
(* until the validation of that scene has run, the component is in         *)
(* Loading and shows the loader.                                           *)
C12_NewLoadRestarts ==
  (rev \in EffectRevisions /\ loader = "resolved" /\ ~dirty /\ effectPending)
    => (Phase = "Loading" /\ rendered = Out("loader", 0))

(* C13: under row-level security anon can insert and can never select,    *)
(* update or delete a row; authenticated can select every row; no policy   *)
(* grants update or delete to any role.                                    *)
C13_RowLevelSecurity ==
  /\ (reply.role = "anon" /\ reply.command = "INSERT" /\ reply.status # "error")
       => (reply.status = "ok" /\ reply.affected = 1)
  /\ (reply.role = "anon" /\ reply.command = "SELECT") => reply.rows = {}
  /\ reply.command \in {"UPDATE", "DELETE"} => reply.affected = 0
  /\ (reply.role = "authenticated" /\ reply.command = "SELECT")
       => reply.rows = Range(contact_submissions)
  /\ \A p \in Policies : p.command \notin {"UPDATE", "DELETE", "ALL"}

(* Two submissions are stored and authenticated has just read both.        *)
C13_Witness ==
  /\ Len(contact_submissions) = 2
  /\ reply.role = "authenticated"
  /\ reply.command = "SELECT"
  /\ Cardinality(reply.rows) = 2

(* The bounding volumes the library computes for a geometry are unfit: the *)
(* radius is not finite or not positive, or a box coordinate is not        *)
(* finite.                                                                 *)
UnfitVolumes(g) ==
  \/ ~isFinite(computeBoundingSphere(g).radius)
  \/ LeqZero(computeBoundingSphere(g).radius)
  \/ \E c \in 1..3 : \/ ~isFinite(computeBoundingBox(g).min[c])
                     \/ ~isFinite(computeBoundingBox(g).max[c])

(* C14: in every revision with a bounding-volume check, a mesh with only   *)
(* finite scalars that reaches the check is marked invalid whenever its    *)
(* radius is not finite or not positive or a box coordinate is not finite. *)
C14_UnfitVolumesAreMarked ==
  \A k \in CurrentRuns : \A j \in 1..Len(runs[k].bounded) :
    (/\ loaded[runs[k].bounded[j]].fault = "none"
     /\ ~HasNonFiniteScalar(loaded[runs[k].bounded[j]])
     /\ UnfitVolumes(loaded[runs[k].bounded[j]]))
      => (runs[k].bounded[j] \in runs[k].marked /\ runs[k].outcome = "Invalid")

(* The priority of an attribute in the scan order.                         *)
Rank(name) ==
  CASE name = "position" -> 1
    [] name = "normal" -> 2
    [] name = "uv" -> 3

(* C15: within a node the attributes are scanned in the order position,    *)
(* normal, uv, and an attribute is scanned only if no attribute of the     *)
(* node before it holds a non-finite scalar.                               *)
C15_ScanStopsAtFirstBadAttribute ==
  \A k \in CurrentRuns : \A n \in 1..Len(runs[k].scanned) :
    /\ \A m \in 1..(n - 1) :
         runs[k].scanned[m][1] = runs[k].scanned[n][1]
           => Rank(runs[k].scanned[m][2]) < Rank(runs[k].scanned[n][2])
    /\ \A e \in {"position", "normal", "uv"} :
         Rank(e) < Rank(runs[k].scanned[n][2])
           => ~NonFinite(AttrOf(loaded[runs[k].scanned[n][1]], e))

(* C16: once a node has been found invalid, no node visited after it has   *)
(* an attribute buffer scanned or its geometry cloned.                     *)
C16_TraversalShortCircuits ==
  \A k \in CurrentRuns : \A i \in runs[k].marked :
    /\ \A n \in 1..Len(runs[k].scanned) : runs[k].scanned[n][1] <= i
    /\ \A b \in 1..Len(runs[k].bounded) : runs[k].bounded[b] <= i

(* C17: a mounted component that has validated a scene reference does not  *)
(* validate that reference again when it is rendered again.                *)
C17_ValidatedOncePerReference ==
  [][ (Phase # "Loading" /\ gltf' = gltf /\ runs' # runs)
        => LastRun'.ref # LastRun.ref ]_vars

(* C18: in the effect revisions every run of the validation effect leaves  *)
(* isValidating false, whichever way the run went.                         *)
C18_EffectLeavesLoading ==
  [][ (effectPending /\ ~effectPending')
        => (~isValidating' /\ Phase' # "Loading") ]_vars

(* The effect of E1 ended in its outer catch and the component left        *)
(* Loading.                                                                *)
C18_Witness ==
  /\ rev = "E1"
  /\ runs # << >>
  /\ LastRun.ref = gltf.ref
  /\ LastRun.present
  /\ LastRun.threw
  /\ ~isValidating
  /\ rendered = Out("fallback", 0)

LoadedAfterFirstRender ==
  /\ rev \in {"K1", "K4"}
  /\ loader = "resolved"
  /\ CleanScene
  /\ MeshNodes # {}
  /\ rendered.kind # "none"
  /\ runs # << >>
  /\ LastRun.ref = 0

(* C20: in K1 and K4 an asset that was pending at the first render and     *)
(* then loads with sound data is eventually rendered.                      *)
C20_PendingAssetIsEventuallyRendered ==
  LoadedAfterFirstRender
    ~> (rendered = Out("primitive", gltf.ref) \/ ~LoadedAfterFirstRender)

====
